---- MODULE Spec2Model ----
(***************************************************************************)
(* State-machine model of IndyAudio's AudioPlayer (src/app.py): the        *)
(* playback-position bookkeeping (start_time, pause_time, length), the     *)
(* ffplay process controller and the seek slider handlers.                 *)
(*                                                                         *)
(* Times are integers in milliseconds.  Track lengths are whole seconds,   *)
(* so slider_value / 1000 * length is an exact integer.                    *)
(***************************************************************************)
EXTENDS Integers, FiniteSets, Sequences, TLC

\* ---------------------------------------------------------------- bounds
MaxNowSec == 2          \* the wall clock runs from 0 to MaxNowSec seconds
MaxLenSec == 2          \* longest detected track length, in seconds
MaxOrphans == 1         \* most ffplay processes that may outlive their kill
SliderWidth == 1        \* widget width in pixels for mouse clicks

\* ------------------------------------------------------ program constants
SliderMax == 1000       \* self.slider.setRange(0, 1000)

Max(a, b) == IF a >= b THEN a ELSE b
Min(a, b) == IF a <= b THEN a ELSE b

Lengths == {s * 1000 : s \in 0..MaxLenSec}

\* ------------------------------------------------------------------ state
VARIABLES
    app,             \* "running" | "closed" | "crashed" (exception escaped a handler)
    current_file,    \* "None" or a path
    process,         \* self.process: "None" | "running" (poll() is None) | "exited"
    orphans,         \* ffplay processes still alive after kill_ffplay dropped them
    start_sec,       \* the -ss offset of the last Popen command line
    start_time,      \* self.start_time
    pause_time,      \* self.pause_time
    length,          \* self.length
    slider_dragging, \* self.slider_dragging
    slider_value,    \* self.slider.value()
    slider_enabled,  \* self.slider.isEnabled()
    time_label,      \* self.time_label text: <<elapsed mm:ss, total mm:ss>>
    playing_icon,    \* TRUE when the button shows the pause icon ("playing")
    title_label,     \* self.title_label text
    album_art,       \* pixmap shown: "default" | "embedded"
    now,             \* time.time()
    last_op          \* the handler that ran last

vars == <<app, current_file, process, orphans, start_sec, start_time,
          pause_time, length, slider_dragging, slider_value, slider_enabled,
          time_label, playing_icon, title_label, album_art, now, last_op>>

Paths == {"track"}

\* format_time: divmod(int(seconds), 60) rendered as mm:ss
format_time(ms) == <<(ms \div 1000) \div 60, (ms \div 1000) % 60>>

\* the number of seconds a rendered mm:ss stands for
LabelSeconds(t) == t[1] * 60 + t[2]

Init ==
    /\ app = "running"
    /\ current_file = "None"
    /\ process = "None"
    /\ orphans = 0
    /\ start_sec = 0
    /\ start_time = 0
    /\ pause_time = 0
    /\ length = 0
    /\ slider_dragging = FALSE
    /\ slider_value = 0
    /\ slider_enabled = FALSE
    /\ time_label = <<format_time(0), format_time(0)>>
    /\ playing_icon = FALSE
    /\ title_label = "No track loaded"
    /\ album_art = "default"
    /\ now = 0
    /\ last_op = "init"

\* ------------------------------------------------------- ffplay control

\* kill_ffplay: SIGTERM, wait 0.5 s, drop the handle.  survives = the process
\* is still alive when the wait times out.
OrphansAfterKill(proc, orph, survives) ==
    IF proc = "running" /\ survives THEN orph + 1 ELSE orph

\* a kill can leave a survivor only while the model has room to count it
KillOutcomes == IF process = "running" /\ orphans < MaxOrphans
                THEN {TRUE, FALSE} ELSE {FALSE}

\* the clamp with its upper bound left out
ClampNoUpper(x, len) == Max(0, x)

\* max(0.0, min(x, self.length))
ClampToLength(x, len) == Max(0, Min(x, len))

\* the seek position with the ratio taken against 100 instead of 1000
ScrubPosPercent(val, len) == (val * len) \div 100

\* pos_ratio = value / 1000.0; pos_seconds = pos_ratio * self.length
ScrubPos(val, len) == (val * len) \div SliderMax

\* the early return without the slider_dragging test
UpdateSliderSkipsNoDrag == current_file = "None" \/ length = 0

\* update_slider's early return
UpdateSliderSkips == current_file = "None" \/ length = 0 \/ slider_dragging

\* the elapsed value without min(elapsed, self.length)
ElapsedUnclamped(proc, t, st, pt, len) ==
    IF proc = "running" THEN Max(0, t - st) ELSE pt

\* update_slider's elapsed value
ElapsedShown(proc, t, st, pt, len) ==
    Min(IF proc = "running" THEN Max(0, t - st) ELSE pt, len)

\* int((elapsed / self.length) * 1000) if self.length > 0 else 0
SliderFor(elapsed, len) == IF len > 0 THEN (elapsed * 1000) \div len ELSE 0

\* ------------------------------------------------------------ load_file

\* extract_metadata, lines 205-244.  audio is what MutagenFile(path) gives
\* ("raises": the open throws; "falsy": None or an object without tags),
\* id3 what the ID3 block does ("raises": ID3(path) throws; "empty": no tags;
\* "tags": title read; "partial": title read, then a later read throws),
\* flac what the FLAC fallback does, pic whether an embedded picture loads.
extract_metadata(audio, id3, flac, pic) ==
    IF audio = "raises"
    THEN [escapes |-> TRUE, title |-> "unset", art |-> "unset", tagfail |-> TRUE]
    ELSE IF audio = "falsy" \/ id3 = "empty"
    THEN [escapes |-> FALSE, title |-> "file_name", art |-> "default",
          tagfail |-> FALSE]
    ELSE IF id3 = "tags"
    THEN [escapes |-> FALSE, title |-> "tag_title",
          art |-> IF pic THEN "embedded" ELSE "default", tagfail |-> FALSE]
    ELSE IF audio = "FLAC" /\ flac = "tags"
    THEN [escapes |-> FALSE, title |-> "tag_title",
          art |-> IF pic THEN "embedded" ELSE "default", tagfail |-> FALSE]
    ELSE [escapes |-> FALSE,
          title |-> IF id3 = "partial" THEN "tag_title" ELSE "file_name",
          art |-> "default", tagfail |-> (id3 = "raises")]

MetaOutcomes ==
    {extract_metadata(a, i, f, p) :
        a \in {"raises", "falsy", "FLAC", "other"},
        i \in {"raises", "empty", "tags", "partial"},
        f \in {"tags", "raises"},
        p \in BOOLEAN}

\* get_duration_with_ffprobe, lines 24-37: the probed length, or 0.0 when
\* ffprobe is missing, fails or prints nothing
get_duration_with_ffprobe(probe_ok, probe_len) ==
    IF probe_ok THEN probe_len ELSE 0

\* duration detection, lines 189-198.  audio is the second MutagenFile(path),
\* info_ok whether float(audio.info.length) succeeds and info_len its value,
\* probe_ok / probe_len the same for ffprobe.
detect_length(audio, info_ok, info_len, probe_ok, probe_len) ==
    IF audio = "raises"
    THEN [escapes |-> TRUE, length |-> 0, allfail |-> TRUE]
    ELSE LET tagged == IF audio = "falsy" \/ ~info_ok THEN 0 ELSE info_len
             len    == IF tagged <= 0
                       THEN get_duration_with_ffprobe(probe_ok, probe_len)
                       ELSE tagged
         IN  [escapes |-> FALSE,
              length  |-> IF len > 0 THEN len ELSE 0,
              allfail |-> (audio = "falsy" \/ ~info_ok \/ info_len <= 0)
                          /\ ~probe_ok]

DurOutcomes ==
    {detect_length(a, io, il, po, pl) :
        a \in {"raises", "falsy", "ok"},
        io \in BOOLEAN, il \in {-1000} \cup Lengths,
        po \in BOOLEAN, pl \in Lengths}

\* load_file, lines 179-203 (stop_internal, lines 314-322, included)
load_file(path, meta, dur, ok) ==
    /\ app = "running"
    /\ \E survives \in KillOutcomes :
           orphans' = OrphansAfterKill(process, orphans, survives)
    /\ current_file' = path
    /\ pause_time' = 0
    /\ slider_value' = 0
    /\ time_label' = <<format_time(0), format_time(length)>>
    /\ slider_dragging' = slider_dragging
    /\ now' = now
    /\ last_op' = "load_file"
    /\ IF meta.escapes
       THEN /\ app' = "crashed"
            /\ process' = "None"
            /\ start_time' = 0
            /\ slider_enabled' = FALSE
            /\ playing_icon' = FALSE
            /\ UNCHANGED <<start_sec, length, title_label, album_art>>
       ELSE /\ title_label' = meta.title
            /\ album_art' = meta.art
            /\ IF dur.escapes
               THEN /\ app' = "crashed"
                    /\ process' = "None"
                    /\ start_time' = 0
                    /\ slider_enabled' = FALSE
                    /\ playing_icon' = FALSE
                    /\ UNCHANGED <<start_sec, length>>
               ELSE /\ app' = "running"
                    /\ length' = dur.length
                    /\ slider_enabled' = (dur.length > 0)
                    /\ start_sec' = 0
                    /\ process' = IF ok THEN "running" ELSE "None"
                    /\ start_time' = IF ok THEN now ELSE 0
                    /\ playing_icon' = TRUE

\* ------------------------------------------------------ play_pause_toggle

\* start_ffplay, lines 247-267, for a loaded file: kill, then spawn
start_ffplay(off, ok) ==
    /\ \E survives \in KillOutcomes :
           orphans' = OrphansAfterKill(process, orphans, survives)
    /\ start_sec' = off
    /\ process' = IF ok THEN "running" ELSE "None"
    /\ start_time' = IF ok THEN now - off ELSE start_time
    /\ playing_icon' = ok

\* play_pause_toggle, lines 286-295
play_pause_toggle(ok) ==
    /\ app = "running"
    /\ IF current_file = "None"
       THEN /\ last_op' = "play_pause_toggle"
            /\ UNCHANGED <<app, current_file, process, orphans, start_sec,
                           start_time, pause_time, length, slider_dragging,
                           slider_value, slider_enabled, time_label,
                           playing_icon, title_label, album_art, now>>
       ELSE IF process = "running"
       THEN /\ pause_time' = ClampToLength(now - start_time, length)
            /\ \E survives \in KillOutcomes :
                   orphans' = OrphansAfterKill(process, orphans, survives)
            /\ process' = "None"
            /\ playing_icon' = FALSE
            /\ last_op' = "pause"
            /\ UNCHANGED <<app, current_file, start_sec, start_time, length,
                           slider_dragging, slider_value, slider_enabled,
                           time_label, title_label, album_art, now>>
       ELSE /\ start_ffplay(pause_time, ok)
            /\ last_op' = "resume"
            /\ UNCHANGED <<app, current_file, pause_time, length,
                           slider_dragging, slider_value, slider_enabled,
                           time_label, title_label, album_art, now>>

\* ---------------------------------------------------------- scrub/slider

\* slider_pressed, lines 325-326 (sliderPressed reaches an enabled slider)
slider_pressed ==
    /\ app = "running"
    /\ slider_enabled
    /\ slider_dragging' = TRUE
    /\ last_op' = "slider_pressed"
    /\ UNCHANGED <<app, current_file, process, orphans, start_sec, start_time,
                   pause_time, length, slider_value, slider_enabled,
                   time_label, playing_icon, title_label, album_art, now>>

\* int(round(ratio * 1000)) with ratio = max(0.0, min(1.0, x / w));
\* Python rounds halves to the even neighbour
ClickValue(x) ==
    LET n == Max(0, Min(SliderWidth, x)) * SliderMax
        q == n \div SliderWidth
        r == n % SliderWidth
    IN  IF 2 * r < SliderWidth THEN q
        ELSE IF 2 * r > SliderWidth THEN q + 1
        ELSE IF q % 2 = 0 THEN q ELSE q + 1

ClickValues == {ClickValue(x) : x \in 0..SliderWidth}

\* update_preview_time, lines 328-332, on sliderMoved(val) while the slider
\* is held down; Qt has moved the slider to val
update_preview_time(val) ==
    /\ app = "running"
    /\ slider_enabled
    /\ slider_dragging
    /\ slider_value' = val
    /\ time_label' = IF length # 0 /\ slider_dragging
                     THEN <<format_time(ScrubPos(val, length)),
                            format_time(length)>>
                     ELSE time_label
    /\ last_op' = "update_preview_time"
    /\ UNCHANGED <<app, current_file, process, orphans, start_sec, start_time,
                   pause_time, length, slider_dragging, slider_enabled,
                   playing_icon, title_label, album_art, now>>

\* the body of scrub, lines 334-341, with the slider at val
ScrubEffect(val, ok) ==
    IF current_file = "None" \/ length = 0
    THEN UNCHANGED <<process, orphans, start_sec, start_time, pause_time,
                     playing_icon>>
    ELSE /\ pause_time' = ClampToLength(ScrubPos(val, length), length)
         /\ start_ffplay(pause_time', ok)

\* scrub on sliderReleased
scrub(ok) ==
    /\ app = "running"
    /\ slider_dragging
    /\ slider_dragging' = FALSE
    /\ ScrubEffect(slider_value, ok)
    /\ last_op' = "scrub"
    /\ UNCHANGED <<app, current_file, length, slider_value, slider_enabled,
                   time_label, title_label, album_art, now>>

\* SeekSlider.mousePressEvent, lines 44-53: move the slider to the click,
\* call scrub, then let QSlider handle the press; onHandle = the press lands
\* on the handle, which emits sliderPressed
mousePressEvent(x, onHandle, ok) ==
    /\ app = "running"
    /\ slider_enabled
    /\ slider_value' = ClickValue(x)
    /\ ScrubEffect(ClickValue(x), ok)
    /\ slider_dragging' = onHandle
    /\ last_op' = "mousePressEvent"
    /\ UNCHANGED <<app, current_file, length, slider_enabled, time_label,
                   title_label, album_art, now>>

\* --------------------------------------------------------- update_slider

\* update_slider, lines 344-359, on the 200 ms timer.  The process is polled
\* twice; exits_between = it exits between the two polls.
update_slider(exits_between) ==
    /\ app = "running"
    /\ exits_between => process = "running"
    /\ last_op' = "update_slider"
    /\ IF UpdateSliderSkips
       THEN /\ ~exits_between
            /\ UNCHANGED <<app, current_file, process, orphans, start_sec,
                           start_time, pause_time, length, slider_dragging,
                           slider_value, slider_enabled, time_label,
                           playing_icon, title_label, album_art, now>>
       ELSE LET elapsed == ElapsedShown(process, now, start_time, pause_time,
                                        length)
            IN  /\ slider_value' = SliderFor(elapsed, length)
                /\ time_label' = <<format_time(elapsed), format_time(length)>>
                /\ IF process = "exited" \/ exits_between
                   THEN /\ pause_time' = length
                        /\ process' = "None"
                        /\ playing_icon' = FALSE
                   ELSE UNCHANGED <<pause_time, process, playing_icon>>
                /\ UNCHANGED <<app, current_file, orphans, start_sec,
                               start_time, length, slider_dragging,
                               slider_enabled, title_label, album_art, now>>

\* closeEvent, lines 361-363
closeEvent ==
    /\ app = "running"
    /\ \E survives \in KillOutcomes :
           orphans' = OrphansAfterKill(process, orphans, survives)
    /\ process' = "None"
    /\ playing_icon' = FALSE
    /\ app' = "closed"
    /\ last_op' = "closeEvent"
    /\ UNCHANGED <<current_file, start_sec, start_time, pause_time, length,
                   slider_dragging, slider_value, slider_enabled, time_label,
                   title_label, album_art, now>>

\* ------------------------------------------------------------ environment

\* the wall clock advances by one second
Advance ==
    /\ now < MaxNowSec * 1000
    /\ now' = now + 1000
    /\ UNCHANGED <<app, current_file, process, orphans, start_sec, start_time,
                   pause_time, length, slider_dragging, slider_value,
                   slider_enabled, time_label, playing_icon, title_label,
                   album_art, last_op>>

\* ffplay exits on its own (-autoexit at the end of the file, or a failure)
ProcessExit ==
    /\ process = "running"
    /\ process' = "exited"
    /\ UNCHANGED <<app, current_file, orphans, start_sec, start_time,
                   pause_time, length, slider_dragging, slider_value,
                   slider_enabled, time_label, playing_icon, title_label,
                   album_art, now, last_op>>

\* a process that outlived its kill finally exits
OrphanExit ==
    /\ orphans > 0
    /\ orphans' = orphans - 1
    /\ UNCHANGED <<app, current_file, process, start_sec, start_time,
                   pause_time, length, slider_dragging, slider_value,
                   slider_enabled, time_label, playing_icon, title_label,
                   album_art, now, last_op>>

LoadFile == \E p \in Paths, m \in MetaOutcomes, d \in DurOutcomes,
               ok \in BOOLEAN : load_file(p, m, d, ok)
Toggle == \E ok \in BOOLEAN : play_pause_toggle(ok)
Preview == \E v \in ClickValues : update_preview_time(v)
Release == \E ok \in BOOLEAN : scrub(ok)
Click == \E x \in 0..SliderWidth, h \in BOOLEAN, ok \in BOOLEAN :
             mousePressEvent(x, h, ok)
TimerTick == \E e \in BOOLEAN : update_slider(e)

Next ==
    \/ LoadFile
    \/ Toggle
    \/ slider_pressed
    \/ Preview
    \/ Release
    \/ Click
    \/ TimerTick
    \/ closeEvent
    \/ Advance
    \/ ProcessExit
    \/ OrphanExit

Spec == Init /\ [][Next]_vars

\* Specification for the end-of-playback claim: once ffplay has exited on its
\* own the user stays idle, except for releasing a slider that is held down.
\* The 200 ms timer keeps firing, a held slider is released, and ffplay
\* (-autoexit) reaches the end of the file.
UserIdle == process = "exited"

LiveNext ==
    \/ (~UserIdle /\ LoadFile)
    \/ (~UserIdle /\ Toggle)
    \/ (~UserIdle /\ slider_pressed)
    \/ (~UserIdle /\ Preview)
    \/ (~UserIdle /\ Click)
    \/ (~UserIdle /\ closeEvent)
    \/ Release
    \/ TimerTick
    \/ Advance
    \/ ProcessExit
    \/ OrphanExit

LiveSpec ==
    /\ Init
    /\ [][LiveNext]_vars
    /\ WF_vars(TimerTick)
    /\ WF_vars(Release)
    /\ WF_vars(ProcessExit)

\* ffplay processes started by the player that are alive
AliveProcesses == orphans + (IF process = "running" THEN 1 ELSE 0)

\* ================================================================ claims

\* C1: every elapsed value on display -- the mm:ss on the time label, written
\* by update_slider, update_preview_time or stop_internal, and the slider
\* position -- is at least 0 and at most self.length, and the slider value
\* stays in 0..1000, however far the clock has run past the track's end.
Thm_C1 ==
    /\ LabelSeconds(time_label[1]) >= 0
    /\ LabelSeconds(time_label[1]) * 1000 <= length
    /\ slider_value \in 0..SliderMax
    /\ slider_value * length <= SliderMax * length

\* C1 witness: a refresh ran while ffplay was still alive past the detected
\* length, and shows exactly the length.
Wit_C1 ==
    /\ last_op = "update_slider"
    /\ process = "running"
    /\ length > 0
    /\ now - start_time > length
    /\ time_label[1] = format_time(length)
    /\ slider_value = SliderMax

\* C2 (as claimed): pausing a running playback stores its position
\* p = now - start_time, and the resume that follows hands p to ffplay and
\* continues the tracked position from p.
CE_C2 ==
    [][ /\ (current_file # "None" /\ process = "running" /\ Toggle)
            => pause_time' = now - start_time
        /\ (last_op = "pause" /\ play_pause_toggle(TRUE))
            => (start_sec' = pause_time /\ start_time' = now - pause_time
                /\ process' = "running") ]_vars

\* C3: after scrub with a file loaded, pause_time and the offset handed to
\* ffplay lie in [0, length], and both equal slider_value / 1000 * length
\* when that is inside the range.
Thm_C3 ==
    (last_op \in {"scrub", "mousePressEvent"} /\ current_file # "None")
    => /\ 0 <= pause_time /\ pause_time <= length
       /\ 0 <= start_sec /\ start_sec <= length
       /\ LET pos == (slider_value * length) \div 1000
          IN  (0 <= pos /\ pos <= length)
              => (pause_time = pos /\ start_sec = pos)

\* C3 witness: a seek into the middle of a track restarted ffplay there.
Wit_C3 ==
    /\ last_op = "scrub"
    /\ current_file # "None"
    /\ process = "running"
    /\ 0 < pause_time /\ pause_time < length
    /\ start_sec = pause_time
    /\ start_time = now - pause_time

\* C4: in every reachable state 0 <= pause_time <= length.
Thm_C4 == 0 <= pause_time /\ pause_time <= length

\* C4 witnesses: a pause taken after the clock ran past the track's end,
\* which the clamp cut to the length.
Wit_C4 ==
    /\ last_op = "pause"
    /\ length > 0
    /\ now - start_time > length
    /\ pause_time = length

\* C5 (as claimed): no exception escapes load_file; when every tag read
\* failed the title is the file name and the artwork the default image, and
\* when every duration read failed the length is 0.
CE_C5 ==
    [][ \A p \in Paths, m \in MetaOutcomes, d \in DurOutcomes, ok \in BOOLEAN :
          load_file(p, m, d, ok)
          => /\ app' = "running"
             /\ m.tagfail => (title_label' = "file_name"
                              /\ album_art' = "default")
             /\ d.allfail => length' = 0 ]_vars

\* C6 (as claimed): whenever the spawn fails inside load_file, a resume or a
\* scrub, the operation leaves self.process None and the button in the
\* 'play' state.
CE_C6 ==
    [][ ( \/ \E p \in Paths, m \in MetaOutcomes, d \in DurOutcomes :
                ~m.escapes /\ ~d.escapes /\ load_file(p, m, d, FALSE)
          \/ (current_file # "None" /\ process # "running"
              /\ play_pause_toggle(FALSE))
          \/ (current_file # "None" /\ length # 0 /\ scrub(FALSE))
          \/ (current_file # "None" /\ length # 0
              /\ \E x \in 0..SliderWidth, h \in BOOLEAN :
                     mousePressEvent(x, h, FALSE)) )
        => (process' = "None" /\ ~playing_icon') ]_vars

\* C7 (as claimed): at most one ffplay process started by the player is
\* alive, and none after closeEvent.
CE_C7 ==
    /\ AliveProcesses <= 1
    /\ app = "closed" => AliveProcesses = 0

\* C8 (as claimed): for a track of any length, once ffplay has exited on its
\* own and the slider is not held, the timer alone brings the player to the
\* not-playing state with pause_time = length.
CE_C8 ==
    (app = "running" /\ process = "exited" /\ ~slider_dragging)
    ~> (process = "None" /\ ~playing_icon /\ pause_time = length)

\* C9 (as claimed): with no other operation between two refreshes of a track
\* with length > 0, the elapsed time on the label does not decrease.
CE_C9 ==
    [][ (last_op = "update_slider" /\ TimerTick /\ ~UpdateSliderSkips)
        => LabelSeconds(time_label'[1]) >= LabelSeconds(time_label[1]) ]_vars

\* C10: while the slider is held, a timer tick leaves the slider value, the
\* time label, pause_time, start_time and self.process unchanged; pressing
\* and moving the slider change nothing of the playback state; and scrub on
\* release clears slider_dragging.
Thm_C10 ==
    [][ /\ (slider_dragging /\ TimerTick)
            => UNCHANGED <<slider_value, time_label, pause_time, start_time,
                           process>>
        /\ (slider_pressed \/ Preview)
            => UNCHANGED <<current_file, process, orphans, start_sec,
                           start_time, pause_time, length, playing_icon>>
        /\ Release => ~slider_dragging' ]_vars

\* C10 witness: a tick ran during a drag of a playing track whose clock had
\* moved on, and the display still shows the drag's preview.
Wit_C10 ==
    /\ last_op = "update_slider"
    /\ slider_dragging
    /\ process = "running"
    /\ length > 0
    /\ now - start_time > 0
    /\ slider_value # SliderFor(Min(now - start_time, length), length)

====
